---- MODULE Spec2Model ----
(***************************************************************************)
(* Model of east/relevance.py, class CosineRelevanceMeasure: the vector    *)
(* space relevance engine (vocabulary, TF matrix, IDF vector, cosine       *)
(* score of a keyphrase against one document of the collection).           *)
(*                                                                         *)
(* Numbers.  The code computes in floating point.  The model has the       *)
(* numbers twice.                                                          *)
(*   Exact: rationals <<numerator, denominator>> (reduced, denominator >   *)
(* 0), math.log carried to three decimals (LnMilli), and a cosine score s  *)
(* carried as its sign and its square, s = sgn * sqrt(sq).  These are the  *)
(* values the floats approximate; the behaviours of Spec hold them, for    *)
(* what rounding cannot change: which attributes exist, which call raises, *)
(* whether a score is zero, whether a repeated call repeats it, and the    *)
(* quotients and logarithms that tf and idf stand for.                     *)
(*   Floats: IEEE 754 binary64 values [m, e] = m * 2^e with a 53-bit m,    *)
(* every operation rounded to nearest, ties to even, as Python and numpy   *)
(* round it; np.dot adds the rounded products in index order.  The         *)
(* behaviours of FloatSpec hold them: what is said of the float that       *)
(* relevance() returns is checked there.                                   *)
(*                                                                         *)
(* Texts.  utils.prepare_text / utils.tokenize_and_filter are external; a  *)
(* text is represented by the token sequence they yield for it.            *)
(***************************************************************************)
EXTENDS Integers, Sequences, FiniteSets, TLC

\* ---------------------------------------------------------------- bounds
MaxDocs == 2            \* documents per collection
MaxTokens == 2          \* tokens per document
MaxQueryTokens == 2     \* tokens per keyphrase
MaxCalls == 2           \* calls made on one instance

\* tokens that documents are made of, and tokens that keyphrases are made of
DocWords == {"cat", "cats"}
QueryWords == DocWords \cup {"dog"}

\* ------------------------------------------------------------- enumerations
WORDS == "WORDS"
STEMS == "STEMS"
LEMMATA == "LEMMATA"
VectorSpace == {WORDS, STEMS, LEMMATA}

TF == "TF"
TF_IDF == "TF_IDF"
TermWeighting == {TF, TF_IDF}

\* outcomes of a call
NoError == "none"
TypeError == "TypeError"              \* raise NotImplemented(): not callable
AttributeError == "AttributeError"    \* self.terms / self.tf / self.idf unset
IndexError == "IndexError"            \* list index out of range

\* ------------------------------------------------------------- rationals
Abs(x) == IF x < 0 THEN -x ELSE x
Max(a, b) == IF a >= b THEN a ELSE b

RECURSIVE GCD(_, _)
GCD(a, b) == IF b = 0 THEN a ELSE GCD(b, a % b)

Rat(n, d) ==
    LET g == GCD(Abs(n), Abs(d))
        s == IF d < 0 THEN -1 ELSE 1
    IN  <<(s * n) \div g, (s * d) \div g>>

Zero == <<0, 1>>
One == <<1, 1>>

\* Sum and product of reduced rationals; common factors are cancelled before
\* multiplying, which leaves the value unchanged and the integers small.
RAdd(a, b) ==
    LET g == GCD(a[2], b[2])
    IN  Rat(a[1] * (b[2] \div g) + b[1] * (a[2] \div g), (a[2] \div g) * b[2])
RMul(a, b) ==
    LET g1 == GCD(Abs(a[1]), b[2])
        g2 == GCD(Abs(b[1]), a[2])
    IN  Rat((a[1] \div g1) * (b[1] \div g2), (a[2] \div g2) * (b[2] \div g1))
RLe(a, b) == a[1] * b[2] <= b[1] * a[2]
Sign(a) == IF a[1] > 0 THEN 1 ELSE IF a[1] < 0 THEN -1 ELSE 0

\* math.log(k) for k = 1..6, in thousandths
LnMilli == <<0, 693, 1098, 1386, 1609, 1791>>

\* math.log(n * 1.0 / d)
LogMut(n, d) == Rat(LnMilli[d] - LnMilli[n], 1000)
Log(n, d) == Rat(LnMilli[n] - LnMilli[d], 1000)

\* ------------------------------------------------------------- sequences
Range(s) == {s[i] : i \in DOMAIN s}

RECURSIVE flatten(_)
flatten(ss) == IF ss = <<>> THEN <<>> ELSE Head(ss) \o flatten(Tail(ss))

SeqsUpTo(S, n) == UNION {[1..k -> S] : k \in 0..n}

\* the orders in which list(set(...)) may enumerate the set S
Orderings(S) ==
    {o \in [1..Cardinality(S) -> S] : \A i, j \in DOMAIN o : o[i] = o[j] => i = j}

\* ------------------------------------------------------------- vectors
\* np.multiply(u, v): element-wise product
Multiply(u, v) == [j \in DOMAIN u |-> RMul(u[j], v[j])]

\* The exact sum of the products u[j] * v[j]; float_dot is np.dot(u, v) as
\* the code evaluates it, rounding after every product and every addition.
RECURSIVE DotUpTo(_, _, _)
DotUpTo(u, v, n) ==
    IF n = 0 THEN Zero ELSE RAdd(DotUpTo(u, v, n - 1), RMul(u[n], v[n]))
Dot(u, v) == DotUpTo(u, v, Len(u))

\* np.count_nonzero(u)
CountNonzero(u) == Cardinality({j \in DOMAIN u : u[j] # Zero})

\* ------------------------------------------------------------- _preprocess_tokens
\* porter.PorterStemmer().stem(token), on the tokens of the model
stem(token) == IF token = "cats" THEN "cat" ELSE token

\* Result of self._preprocess_tokens(tokens): the error raised (NoError if
\* none) and the value returned.
preprocess_tokens(vector_space_, tokens) ==
    IF vector_space_ = WORDS THEN [raised |-> NoError, value |-> tokens]
    ELSE IF vector_space_ = STEMS THEN
        [raised |-> NoError,
         value |-> [i \in DOMAIN tokens |->
                       [p \in DOMAIN tokens[i] |-> stem(tokens[i][p])]]]
    ELSE [raised |-> TypeError, value |-> <<>>]

\* ------------------------------------------------------------- _tf_idf
\* term_index[self.terms[i]] = i, for i in xrange(len(self.terms))
TermIndex(terms_) ==
    [t \in Range(terms_) |->
        CHOOSE i \in DOMAIN terms_ :
            terms_[i] = t /\ \A j \in DOMAIN terms_ : terms_[j] = t => j <= i]

\* tf[i][j] before normalisation: the tokens of the document that the
\* inverted index sends to column j
Freq(term_index, doc, j) ==
    Cardinality({p \in DOMAIN doc :
                    doc[p] \in DOMAIN term_index /\ term_index[doc[p]] = j})

\* tf[i] = [freq * 1.0 / max(len(tokens[i]), 1) for freq in tf[i]]
TfRowMut(term_index, doc, n) ==
    [j \in 1..n |-> Rat(Freq(term_index, doc, j), Max(Cardinality(Range(doc)), 1))]
TfRow(term_index, doc, n) ==
    [j \in 1..n |-> Rat(Freq(term_index, doc, j), Max(Len(doc), 1))]

\* idf_docs[token]: the documents in which an indexed token occurs
IdfDocs(term_index, tokens, token) ==
    {i \in DOMAIN tokens : token \in DOMAIN term_index /\ token \in Range(tokens[i])}

\* the tokens that are keys of idf_docs
IdfKeys(term_index, tokens) ==
    {t \in Range(flatten(tokens)) : IdfDocs(term_index, tokens, t) # {}}

\* idf = [0] * len(self.terms); then, for term in idf_docs:
\* idf[term_index[term]] = 1 + math.log(N * 1.0 / len(idf_docs[term]))
IdfVector(term_index, tokens, n) ==
    LET keys == IdfKeys(term_index, tokens)
    IN  [j \in 1..n |->
            IF \E t \in keys : term_index[t] = j
            THEN LET t == CHOOSE k \in keys : term_index[k] = j
                 IN  RAdd(One, Log(Len(tokens),
                                   Cardinality(IdfDocs(term_index, tokens, t))))
            ELSE Zero]

\* self._tf_idf(tokens), reading self.terms
tf_idf(terms_, tokens) ==
    LET term_index == TermIndex(terms_)
        n == Len(terms_)
    IN  [tf |-> [i \in DOMAIN tokens |-> TfRow(term_index, tokens[i], n)],
         idf |-> IdfVector(term_index, tokens, n)]

\* ------------------------------------------------------------- _cosine_similarity
\* a / b, for b # 0
RDiv(a, b) == RMul(a, Rat(b[2], b[1]))

\* A score s, carried as sgn * sqrt(sq); nan when the division is by zero.
ScoreOf(dot, norms2) ==
    IF norms2 = Zero THEN [nan |-> TRUE, sgn |-> 0, sq |-> Zero]
    ELSE [nan |-> FALSE, sgn |-> Sign(dot), sq |-> RDiv(RMul(dot, dot), norms2)]

\* square of: math.sqrt(np.dot(u, u)) if np.count_nonzero(u) else 1.0
Norm2Mut(u) == Dot(u, u)
Norm2(u) == IF CountNonzero(u) # 0 THEN Dot(u, u) ELSE One

\* The exact quotient of the dot product by the product of the norms, as
\* sign and square; float_cosine_similarity is
\* np.dot(u, v) / (u_norm * v_norm) as the code evaluates it, with rounded
\* square roots, a rounded product and a rounded quotient.
cosine_similarity(u, v) == ScoreOf(Dot(u, v), RMul(Norm2(u), Norm2(v)))

\* ------------------------------------------------------------- relevance
\* Position (1-based) that a Python list of length n gives index i; 0 when
\* the index raises IndexError.  Negative indices count from the end.
ListIndex(n, i) ==
    IF 0 <= i /\ i < n THEN i + 1
    ELSE IF -n <= i /\ i < 0 THEN n + i + 1
    ELSE 0

NoScore == [nan |-> FALSE, sgn |-> 0, sq |-> Zero]
Failed(error) ==
    [raised |-> error, score |-> NoScore, query_vector |-> <<>>, text_vector |-> <<>>]

\* self.relevance(keyphrase, text, synonimizer): the error raised or the
\* score returned, with the two vectors handed to _cosine_similarity.  The
\* synonimizer argument is never read.
relevance(self, keyphrase, text) ==
    LET pre == preprocess_tokens(self.vector_space, <<keyphrase>>)
    IN  IF pre.raised # NoError THEN Failed(pre.raised)
        ELSE IF "terms" \notin self.defined THEN Failed(AttributeError)
        ELSE
        LET q == tf_idf(self.terms, pre.value)
            query_tf == q.tf[1]
            query_idf == q.idf
            row == ListIndex(Len(self.tf), text)
        IN  IF "tf" \notin self.defined THEN Failed(AttributeError)
            ELSE IF row = 0 THEN Failed(IndexError)
            ELSE IF self.term_weighting = TF THEN
                [raised |-> NoError,
                 score |-> cosine_similarity(self.tf[row], query_tf),
                 query_vector |-> query_tf,
                 text_vector |-> self.tf[row]]
            ELSE IF "idf" \notin self.defined THEN Failed(AttributeError)
            ELSE
                LET text_vector == Multiply(self.tf[row], self.idf)
                    query_vector == Multiply(query_tf, query_idf)
                IN  [raised |-> NoError,
                     score |-> cosine_similarity(text_vector, query_vector),
                     query_vector |-> query_vector,
                     text_vector |-> text_vector]

\* ------------------------------------------------------------- set_text_collection
AllAttrs == {"terms", "tf", "idf"}

\* the orders list(set(utils.flatten(preprocessed_tokens))) may produce
TermOrders(vector_space_, texts) ==
    LET pre == preprocess_tokens(vector_space_, texts)
    IN  IF pre.raised # NoError THEN {<<>>}
        ELSE Orderings(Range(flatten(pre.value)))

\* self.set_text_collection(texts): the error raised and the attributes of
\* self afterwards; order is the enumeration order of the term set.
set_text_collectionMut(self, texts, order) ==
    LET pre == preprocess_tokens(self.vector_space, texts)
        early == CHOOSE o \in Orderings(Range(flatten(texts))) : TRUE
    IN  IF pre.raised # NoError
        THEN [raised |-> pre.raised, defined |-> self.defined \cup {"terms"},
              terms |-> early, tf |-> self.tf, idf |-> self.idf]
        ELSE LET r == tf_idf(order, pre.value)
             IN  [raised |-> NoError, defined |-> AllAttrs,
                  terms |-> order, tf |-> r.tf, idf |-> r.idf]
set_text_collection(self, texts, order) ==
    LET pre == preprocess_tokens(self.vector_space, texts)
    IN  IF pre.raised # NoError
        THEN [raised |-> pre.raised, defined |-> self.defined,
              terms |-> self.terms, tf |-> self.tf, idf |-> self.idf]
        ELSE LET r == tf_idf(order, pre.value)
             IN  [raised |-> NoError, defined |-> AllAttrs,
                  terms |-> order, tf |-> r.tf, idf |-> r.idf]

\* ------------------------------------------------------------- floats
\* A Python float (IEEE 754 binary64) that is finite and not negative is
\* carried as [m, e] with value m * 2^e, where m is zero or a 53-bit
\* integer (2^52 <= m < 2^53).  Integers of that size are carried as NL
\* limbs in base B, least significant first.  Every operation rounds its
\* exact result to the nearest float, ties to even, as the hardware does.
\* Negative values, infinities, subnormals and nan from operands do not
\* arise: every operand is a count, a quotient of counts, or 1 + log(x)
\* with x >= 1.
B == 16384              \* 2^14
LimbBits == 14
NL == 8
Precision == 53

Pow2Table ==
    <<1, 2, 4, 8, 16, 32, 64, 128, 256, 512, 1024, 2048, 4096, 8192, 16384>>
Pow2(k) == Pow2Table[k + 1]

RECURSIVE BitLen(_)
BitLen(n) == IF n = 0 THEN 0 ELSE 1 + BitLen(n \div 2)

\* the integer n < B^3 as limbs
BigOf(n) == <<n % B, (n \div B) % B, n \div (B * B), 0, 0, 0, 0, 0>>
BigZero == BigOf(0)
BigOne == BigOf(1)

\* limbs i..NL of x + c * B^(i-1), where the digits of x may exceed B - 1 or
\* be negative
RECURSIVE Carry(_, _, _)
CarryStep(x, i, t) == <<t % B>> \o Carry(x, i + 1, t \div B)
Carry(x, i, c) == IF i > NL THEN <<>> ELSE CarryStep(x, i, x[i] + c)

BigAdd(a, b) == Carry([i \in 1..NL |-> a[i] + b[i]], 1, 0)
\* a - b, for a >= b
BigSub(a, b) == Carry([i \in 1..NL |-> a[i] - b[i]], 1, 0)
\* a * b, for a, b < B^4
BigMul(a, b) ==
    LET T(i, k) == IF (k + 1 - i) \in 1..4 THEN a[i] * b[k + 1 - i] ELSE 0
    IN  Carry([k \in 1..NL |-> T(1, k) + T(2, k) + T(3, k) + T(4, k)], 1, 0)

\* -1, 0, 1 as a < b, a = b, a > b
RECURSIVE BigCmpFrom(_, _, _)
BigCmpFrom(a, b, i) ==
    IF i = 0 THEN 0
    ELSE IF a[i] > b[i] THEN 1
    ELSE IF a[i] < b[i] THEN -1
    ELSE BigCmpFrom(a, b, i - 1)
BigCmp(a, b) == BigCmpFrom(a, b, NL)

\* a \div 2^(q * LimbBits + r)
BigShrBy(a, q, r) ==
    LET L(i) == IF i + q <= NL THEN a[i + q] ELSE 0
        F(i) == (L(i) \div Pow2(r)) + (L(i + 1) % Pow2(r)) * Pow2(LimbBits - r)
    IN  <<F(1), F(2), F(3), F(4), F(5), F(6), F(7), F(8)>>
BigShr(a, s) == BigShrBy(a, s \div LimbBits, s % LimbBits)
\* a * 2^(q * LimbBits + r), when that is below B^NL
BigShlBy(a, q, r) ==
    LET L(i) == IF i - q >= 1 THEN a[i - q] ELSE 0
        F(i) == (L(i) % Pow2(LimbBits - r)) * Pow2(r) + (L(i - 1) \div Pow2(LimbBits - r))
    IN  <<F(1), F(2), F(3), F(4), F(5), F(6), F(7), F(8)>>
BigShl(a, s) == BigShlBy(a, s \div LimbBits, s % LimbBits)

\* number of bits of a
RECURSIVE BigLenFrom(_, _)
BigLenFrom(a, i) ==
    IF i = 0 THEN 0
    ELSE IF a[i] # 0 THEN (i - 1) * LimbBits + BitLen(a[i])
    ELSE BigLenFrom(a, i - 1)
BigLen(a) == BigLenFrom(a, NL)

FZero == [m |-> BigZero, e |-> 0]

\* The float nearest to x * 2^e, ties to even; sticky says that the exact
\* value is slightly above x * 2^e.  s is the number of bits to drop, q the
\* bits kept, c the comparison of the bits dropped with half a unit.
Renorm(q, e) ==
    IF BigLen(q) > Precision THEN [m |-> BigShr(q, 1), e |-> e + 1]
    ELSE [m |-> q, e |-> e]
RoundUp(q, e, c, sticky) ==
    Renorm(IF c > 0 \/ (c = 0 /\ (sticky \/ q[1] % 2 = 1)) THEN BigAdd(q, BigOne) ELSE q,
           e)
RoundQuot(x, e, sticky, s, q) ==
    RoundUp(q, e + s, BigCmp(BigSub(x, BigShl(q, s)), BigShl(BigOne, s - 1)), sticky)
RoundShift(x, e, sticky, s) ==
    IF s <= 0 THEN [m |-> BigShl(x, 0 - s), e |-> e + s]
    ELSE RoundQuot(x, e, sticky, s, BigShr(x, s))
Round(x, e, sticky) ==
    IF x = BigZero THEN FZero ELSE RoundShift(x, e, sticky, BigLen(x) - Precision)

\* float(n), for an integer 0 <= n < B^3
FromInt(n) == Round(BigOf(n), 0, FALSE)
FOne == FromInt(1)

\* a + b
FAddAligned(hi, lo) ==
    IF hi.e - lo.e > 56 THEN hi
    ELSE Round(BigAdd(BigShl(hi.m, hi.e - lo.e), lo.m), lo.e, FALSE)
FAdd(a, b) ==
    IF a = FZero THEN b
    ELSE IF b = FZero THEN a
    ELSE IF a.e >= b.e THEN FAddAligned(a, b)
    ELSE FAddAligned(b, a)

\* a * b
FMul(a, b) ==
    IF a = FZero \/ b = FZero THEN FZero
    ELSE Round(BigMul(a.m, b.m), a.e + b.e, FALSE)

\* a * d, for a digit d < B
BigMulSmall(a, d) == Carry([i \in 1..NL |-> a[i] * d], 1, 0)

\* Long division in base B of r * B by d, for r < d and d of exactly four
\* limbs with d[4] >= B / 2: <<digit, remainder>>.  The digit is estimated
\* from the leading limbs, which never gives too little, and lowered
\* until digit * d (the product p) fits.
RECURSIVE DivFix(_, _, _, _)
DivFix(digit, p, rB, d) ==
    IF BigCmp(p, rB) > 0 THEN DivFix(digit - 1, BigSub(p, d), rB, d)
    ELSE <<digit, BigSub(rB, p)>>
DivEstimate(rB, d, digit) == DivFix(digit, BigMulSmall(d, digit), rB, d)
DivDigit(rB, d) ==
    DivEstimate(rB, d,
                IF (rB[5] * B + rB[4]) \div d[4] >= B THEN B - 1
                ELSE (rB[5] * B + rB[4]) \div d[4])

\* <<digits, r>>: k more digits of the quotient put before digits (least
\* significant first), and the remainder
RECURSIVE DivLoop(_, _, _)
DivPut(qr, dr, d, k) == DivLoop(<<<<dr[1]>> \o qr[1], dr[2]>>, d, k - 1)
DivLoop(qr, d, k) ==
    IF k = 0 THEN qr ELSE DivPut(qr, DivDigit(BigShlBy(qr[2], 1, 0), d), d, k)

\* a / b, for b # 0: the mantissas are scaled to four full limbs, n and d;
\* the quotient n * B^4 \div d has the digit n \div d, which is 0 or 1, and
\* four more
FDivRound(qr, e) == Round(qr[1] \o <<0, 0, 0>>, e, qr[2] # BigZero)
FDivScaled(n, d, e) ==
    IF BigCmp(n, d) >= 0
    THEN FDivRound(DivLoop(<<<<1>>, BigSub(n, d)>>, d, 4), e)
    ELSE FDivRound(DivLoop(<<<<0>>, n>>, d, 4), e)
FDiv(a, b) ==
    IF a = FZero THEN FZero
    ELSE FDivScaled(BigShl(a.m, 3), BigShl(b.m, 3), a.e - b.e - 4 * LimbBits)

\* the integer square root of n < B^2, from an estimate x that is not below it
RECURSIVE ISqrt(_, _)
ISqrt(n, x) ==
    IF (x + n \div x) \div 2 >= x THEN x ELSE ISqrt(n, (x + n \div x) \div 2)

\* Square root in base B, a pair of limbs of x at a time.  r is the root of
\* the pairs above pair j, rem what they leave.  The next digit is the
\* largest with (2 * r * B + digit) * digit <= rem * B^2 + pair j; it is
\* estimated from the leading limbs, which never gives too little, and
\* lowered until it fits.  <<root, remainder>>.
RECURSIVE SqrtLoop(_, _, _, _)
RECURSIVE SqrtFix(_, _, _)
SqrtFix(r2B, rem, digit) ==
    IF BigCmp(BigMulSmall(BigAdd(r2B, BigOf(digit)), digit), rem) > 0
    THEN SqrtFix(r2B, rem, digit - 1)
    ELSE digit
SqrtPut(x, r2B, rem, j, digit) ==
    SqrtLoop(x, BigShr(BigAdd(r2B, BigOf(2 * digit)), 1),
             BigSub(rem, BigMulSmall(BigAdd(r2B, BigOf(digit)), digit)), j - 1)
SqrtEstimate(x, r2B, rem, j, top, lead) ==
    SqrtPut(x, r2B, rem, j,
            SqrtFix(r2B, rem,
                    IF (lead + 1) \div (2 * top) >= B THEN B - 1
                    ELSE (lead + 1) \div (2 * top)))
SqrtDigit(x, r, rem, j) ==
    SqrtEstimate(x, BigShlBy(BigAdd(r, r), 1, 0), rem, j, r[4 - j],
                 rem[5 - j] + rem[6 - j] * B + rem[7 - j] * B * B)
SqrtLoop(x, r, rem, j) ==
    IF j = 0 THEN <<r, rem>>
    ELSE SqrtDigit(x, r,
                   BigAdd(BigShlBy(rem, 2, 0), BigOf(x[2 * j] * B + x[2 * j - 1])), j)
SqrtFirst(x, digit) ==
    SqrtLoop(x, BigOf(digit), BigOf(x[8] * B + x[7] - digit * digit), 3)

\* math.sqrt(a): the mantissa is scaled to x of eight full limbs with an
\* even exponent left over
FSqrtRound(sr, e) == Round(sr[1], e, sr[2] # BigZero)
FSqrtScaled(x, e) == FSqrtRound(SqrtFirst(x, ISqrt(x[8] * B + x[7], B)), e)
FSqrtBy(a, k) == FSqrtScaled(BigShl(a.m, k), (a.e - k) \div 2)
FSqrt(a) ==
    IF a = FZero THEN FZero
    ELSE FSqrtBy(a, IF a.e % 2 = 0 THEN 58 ELSE 59)

\* a <= b
FLe(a, b) ==
    IF a = FZero THEN TRUE
    ELSE IF b = FZero THEN FALSE
    ELSE a.e < b.e \/ (a.e = b.e /\ BigCmp(a.m, b.m) <= 0)

\* ------------------------------------------------------------- the code's floats
\* The operators below are _tf_idf, _cosine_similarity, relevance and
\* set_text_collection again, with every number a float and every
\* operation rounded as Python and numpy round it.

\* math.log(x) for the quotients N * 1.0 / len(idf_docs[term]) of a
\* collection of one or two documents: log(1.0) = 0.0,
\* log(2.0) = 0.6931471805599453 = 6243314768165359 * 2^-53
Ln2 == [m |-> <<14831, 15336, 9263, 1419, 0, 0, 0, 0>>, e |-> 0 - 53]
float_log(x) == CASE x = FOne -> FZero [] x = FromInt(2) -> Ln2

\* np.multiply(u, v), entries 1..n
RECURSIVE float_multiply_upto(_, _, _)
float_multiply_upto(u, v, n) ==
    IF n = 0 THEN <<>>
    ELSE Append(float_multiply_upto(u, v, n - 1), FMul(u[n], v[n]))
float_multiply(u, v) == float_multiply_upto(u, v, Len(u))

\* np.dot(u, v): the products are added one by one, in index order
RECURSIVE float_dot_upto(_, _, _)
float_dot_upto(u, v, n) ==
    IF n = 0 THEN FZero
    ELSE FAdd(float_dot_upto(u, v, n - 1), FMul(u[n], v[n]))
float_dot(u, v) == float_dot_upto(u, v, Len(u))

\* np.count_nonzero(u)
float_count_nonzero(u) == Cardinality({j \in DOMAIN u : u[j] # FZero})

\* tf[i] = [freq * 1.0 / max(len(tokens[i]), 1) for freq in tf[i]], entries 1..n
RECURSIVE float_tf_row(_, _, _)
float_tf_row(term_index, doc, n) ==
    IF n = 0 THEN <<>>
    ELSE Append(float_tf_row(term_index, doc, n - 1),
                FDiv(FromInt(Freq(term_index, doc, n)), FromInt(Max(Len(doc), 1))))

RECURSIVE float_tf_rows(_, _, _, _)
float_tf_rows(term_index, tokens, n, i) ==
    IF i = 0 THEN <<>>
    ELSE Append(float_tf_rows(term_index, tokens, n, i - 1),
                float_tf_row(term_index, tokens[i], n))

\* idf = [0] * len(self.terms); then, for term in idf_docs:
\* idf[term_index[term]] = 1 + math.log(N * 1.0 / len(idf_docs[term])),
\* entries 1..j
RECURSIVE float_idf_vector(_, _, _)
float_idf_vector(term_index, tokens, j) ==
    IF j = 0 THEN <<>>
    ELSE Append(float_idf_vector(term_index, tokens, j - 1),
                IF \E t \in IdfKeys(term_index, tokens) : term_index[t] = j
                THEN LET t == CHOOSE k \in IdfKeys(term_index, tokens) : term_index[k] = j
                     IN  FAdd(FOne,
                              float_log(FDiv(FromInt(Len(tokens)),
                                             FromInt(Cardinality(IdfDocs(term_index, tokens, t))))))
                ELSE FZero)

\* self._tf_idf(tokens), reading self.terms
float_tf_idf(terms_, tokens) ==
    [tf |-> float_tf_rows(TermIndex(terms_), tokens, Len(terms_), Len(tokens)),
     idf |-> float_idf_vector(TermIndex(terms_), tokens, Len(terms_))]

\* math.sqrt(np.dot(u, u)) if np.count_nonzero(u) else 1.0
float_norm(u) == IF float_count_nonzero(u) # 0 THEN FSqrt(float_dot(u, u)) ELSE FOne

\* np.dot(u, v) / (u_norm * v_norm)
float_cosine_similarity(u, v) ==
    FDiv(float_dot(u, v), FMul(float_norm(u), float_norm(v)))

float_failed(error) ==
    [raised |-> error, score |-> FZero, query_vector |-> <<>>, text_vector |-> <<>>]

\* the two vectors relevance() hands to _cosine_similarity, and the score
float_scored(text_vector, query_vector) ==
    [raised |-> NoError,
     score |-> float_cosine_similarity(text_vector, query_vector),
     query_vector |-> query_vector,
     text_vector |-> text_vector]

\* self.relevance(keyphrase, text, synonimizer)
float_relevance_of(self, q, row) ==
    IF "tf" \notin self.defined THEN float_failed(AttributeError)
    ELSE IF row = 0 THEN float_failed(IndexError)
    ELSE IF self.term_weighting = TF THEN float_scored(self.tf[row], q.tf[1])
    ELSE IF "idf" \notin self.defined THEN float_failed(AttributeError)
    ELSE float_scored(float_multiply(self.tf[row], self.idf),
                      float_multiply(q.tf[1], q.idf))
float_relevance_pre(self, pre, text) ==
    IF pre.raised # NoError THEN float_failed(pre.raised)
    ELSE IF "terms" \notin self.defined THEN float_failed(AttributeError)
    ELSE float_relevance_of(self, float_tf_idf(self.terms, pre.value),
                            ListIndex(Len(self.tf), text))
float_relevance(self, keyphrase, text) ==
    float_relevance_pre(self, preprocess_tokens(self.vector_space, <<keyphrase>>), text)

\* self.set_text_collection(texts), the term set enumerated in the given order
float_set_text_collection_pre(self, pre, order) ==
    IF pre.raised # NoError
    THEN [raised |-> pre.raised, defined |-> self.defined,
          terms |-> self.terms, tf |-> self.tf, idf |-> self.idf]
    ELSE [raised |-> NoError, defined |-> AllAttrs, terms |-> order,
          tf |-> float_tf_idf(order, pre.value).tf,
          idf |-> float_tf_idf(order, pre.value).idf]
float_set_text_collection(self, texts, order) ==
    float_set_text_collection_pre(self, preprocess_tokens(self.vector_space, texts), order)

\* ------------------------------------------------------------- state
VARIABLES
    vector_space,     \* self.vector_space
    term_weighting,   \* self.term_weighting
    defined,          \* which of self.terms, self.tf, self.idf have been assigned
    terms,            \* self.terms
    tf,               \* self.tf
    idf,              \* self.idf
    configured,       \* history: number of set_text_collection calls that returned
    collection,       \* history: the texts of the last call that returned
    last,             \* history: the last call, its arguments and its outcome
    calls             \* history: number of calls made so far

vars == <<vector_space, term_weighting, defined, terms, tf, idf,
          configured, collection, last, calls>>

Self ==
    [vector_space |-> vector_space, term_weighting |-> term_weighting,
     defined |-> defined, terms |-> terms, tf |-> tf, idf |-> idf]

\* ------------------------------------------------------------- inputs
Texts == SeqsUpTo(DocWords, MaxTokens)
Collections == SeqsUpTo(Texts, MaxDocs)
Keyphrases == SeqsUpTo(QueryWords, MaxQueryTokens)
Indices == (0 - (MaxDocs + 1))..MaxDocs

NoCall ==
    [op |-> "__init__", texts |-> <<>>, keyphrase |-> <<>>, text |-> 0,
     raised |-> NoError, score |-> NoScore,
     query_vector |-> <<>>, text_vector |-> <<>>]

\* ------------------------------------------------------------- __init__
InitMut ==
    /\ vector_space \in VectorSpace
    /\ term_weighting \in TermWeighting
    /\ defined = AllAttrs
    /\ terms = <<>>
    /\ tf = << <<>> >>
    /\ idf = <<>>
    /\ configured = 0
    /\ collection = <<>>
    /\ last = NoCall
    /\ calls = 0
Init ==
    /\ vector_space \in VectorSpace
    /\ term_weighting \in TermWeighting
    /\ defined = {}
    /\ terms = <<>>
    /\ tf = <<>>
    /\ idf = <<>>
    /\ configured = 0
    /\ collection = <<>>
    /\ last = NoCall
    /\ calls = 0

\* ------------------------------------------------------------- calls
\* A behaviour makes at most MaxCalls calls.  set_text_collection reads
\* nothing but self.vector_space and relevance writes nothing, so the
\* attributes an instance can hold after any number of calls are those it
\* can hold after one set_text_collection call.
SetTextCollectionCall ==
    /\ calls < MaxCalls
    /\ calls' = calls + 1
    /\ \E texts \in Collections :
        \E order \in TermOrders(vector_space, texts) :
            \E r \in {set_text_collection(Self, texts, order)} :
                /\ defined' = r.defined
                /\ terms' = r.terms
                /\ tf' = r.tf
                /\ idf' = r.idf
                /\ configured' = IF r.raised = NoError THEN configured + 1
                                                        ELSE configured
                /\ collection' = IF r.raised = NoError THEN texts ELSE collection
                /\ last' = [NoCall EXCEPT !.op = "set_text_collection",
                                          !.texts = texts,
                                          !.raised = r.raised]
                /\ UNCHANGED <<vector_space, term_weighting>>

\* what is recorded of a relevance() call
CallRecord(keyphrase, text, r) ==
    [op |-> "relevance", texts |-> <<>>, keyphrase |-> keyphrase, text |-> text,
     raised |-> r.raised, score |-> r.score,
     query_vector |-> r.query_vector, text_vector |-> r.text_vector]

RelevanceCallMut ==
    /\ calls < MaxCalls
    /\ calls' = calls + 1
    /\ \E keyphrase \in Keyphrases, text \in Indices :
        LET pre == preprocess_tokens(vector_space, <<keyphrase>>)
            stored == pre.raised = NoError /\ "terms" \in defined
            q == tf_idf(terms, pre.value)
            \* self.tf, self.idf = self._tf_idf(query_tokens)
            r == IF stored
                 THEN relevance([Self EXCEPT !.tf = q.tf, !.idf = q.idf,
                                             !.defined = AllAttrs],
                                keyphrase, text)
                 ELSE relevance(Self, keyphrase, text)
        IN  /\ last' = CallRecord(keyphrase, text, r)
            /\ tf' = IF stored THEN q.tf ELSE tf
            /\ idf' = IF stored THEN q.idf ELSE idf
            /\ defined' = IF stored THEN AllAttrs ELSE defined
            /\ UNCHANGED <<vector_space, term_weighting, terms,
                           configured, collection>>
RelevanceCall ==
    /\ calls < MaxCalls
    /\ calls' = calls + 1
    /\ \E keyphrase \in Keyphrases, text \in Indices :
        /\ last' = CallRecord(keyphrase, text, relevance(Self, keyphrase, text))
        /\ UNCHANGED <<vector_space, term_weighting, defined, terms, tf, idf,
                       configured, collection>>

Next == SetTextCollectionCall \/ RelevanceCall

Spec == Init /\ [][Next]_vars

\* ------------------------------------------------------------- float inputs
\* Tokens of the documents and of the keyphrases of the float behaviours.
FloatDocWords == {"ant", "bee", "cow"}
FloatQueryWords == FloatDocWords \cup {"dog"}
WordRank == [w \in FloatQueryWords |->
                IF w = "ant" THEN 1 ELSE IF w = "bee" THEN 2
                ELSE IF w = "cow" THEN 3 ELSE 4]

MaxFloatDocs == 1       \* documents per collection
MaxRare == 1            \* occurrences of "ant" and of "bee" in a document
MaxCommon == 3          \* occurrences of "cow" in a document
MaxFloatQueryTokens == 4    \* tokens per keyphrase

Repeat(w, n) == [p \in 1..n |-> w]

\* documents: some "ant", then some "bee", then some "cow"
FloatTexts ==
    {Repeat("ant", i) \o Repeat("bee", j) \o Repeat("cow", k) :
        i \in 0..MaxRare, j \in 0..MaxRare, k \in 0..MaxCommon}
FloatCollections == SeqsUpTo(FloatTexts, MaxFloatDocs)
\* keyphrases: distinct tokens, in alphabetical order
FloatKeyphrases ==
    {k \in SeqsUpTo(FloatQueryWords, MaxFloatQueryTokens) :
        \A p, q \in DOMAIN k : p < q => WordRank[k[p]] < WordRank[k[q]]}
\* the valid document indices
FloatIndices == 0..(MaxFloatDocs - 1)

\* ------------------------------------------------------------- float behaviours
\* The same instance, with tf, idf and the score held as floats: one
\* set_text_collection() call, then one relevance() call.
FloatSetTextCollectionCall ==
    /\ calls = 0
    /\ calls' = calls + 1
    /\ \E texts \in FloatCollections :
        \E order \in TermOrders(vector_space, texts) :
            \E r \in {float_set_text_collection(Self, texts, order)} :
                /\ defined' = r.defined
                /\ terms' = r.terms
                /\ tf' = r.tf
                /\ idf' = r.idf
                /\ configured' = IF r.raised = NoError THEN configured + 1
                                                        ELSE configured
                /\ collection' = IF r.raised = NoError THEN texts ELSE collection
                /\ last' = [NoCall EXCEPT !.op = "set_text_collection",
                                          !.texts = texts,
                                          !.raised = r.raised]
                /\ UNCHANGED <<vector_space, term_weighting>>

FloatRelevanceCall ==
    /\ calls = 1
    /\ calls' = calls + 1
    /\ \E keyphrase \in FloatKeyphrases, text \in FloatIndices :
        \E r \in {float_relevance(Self, keyphrase, text)} :
            /\ last' = CallRecord(keyphrase, text, r)
            /\ UNCHANGED <<vector_space, term_weighting, defined, terms, tf, idf,
                           configured, collection>>

FloatNext == FloatSetTextCollectionCall \/ FloatRelevanceCall

FloatSpec == Init /\ [][FloatNext]_vars

\* ------------------------------------------------------------- properties
\* the tokens of a text after _preprocess_tokens, for an instance that
\* has been configured (so that _preprocess_tokens does not raise)
Preprocessed(text) == preprocess_tokens(vector_space, <<text>>).value[1]

\* N, the number of configured documents
N == Len(collection)

Called(op) == last.op = op
Returned == Called("relevance") /\ last.raised = NoError
Count(term, doc) == Cardinality({p \in DOMAIN doc : doc[p] = term})
DocFreq(term) ==
    Cardinality({i \in DOMAIN collection : term \in Range(Preprocessed(collection[i]))})

RECURSIVE SumUpTo(_, _)
SumUpTo(u, n) == IF n = 0 THEN Zero ELSE RAdd(SumUpTo(u, n - 1), u[n])

ZeroScore == [nan |-> FALSE, sgn |-> 0, sq |-> Zero]

\* C1: with TF_IDF weighting, the query vector handed to the cosine is the
\* query's term-frequency vector scaled term by term by the collection's
\* IDF vector self.idf, as the stored document vector is.
C1_QueryScaledByCollectionIdf ==
    (Returned /\ term_weighting = TF_IDF) =>
        /\ last.text_vector = Multiply(tf[ListIndex(Len(tf), last.text)], idf)
        /\ last.query_vector =
               Multiply(tf_idf(terms, <<Preprocessed(last.keyphrase)>>).tf[1], idf)

\* C2: on a configured instance, relevance() with a document index outside
\* 0..N-1 (every negative index included) raises IndexError and returns no
\* score.
C2_IndexOutOfRangeRaises ==
    (Called("relevance") /\ configured > 0 /\ last.text \notin 0..(N - 1)) =>
        last.raised = IndexError

\* C3: on a configured instance and for a document index in 0..N-1, a
\* keyphrase that shares no term with the document (out-of-vocabulary
\* tokens only, no tokens at all, or an empty document) gets the score 0
\* exactly, under both weightings, and the call does not raise.
C3_NoOverlapScoresZero ==
    (Called("relevance") /\ configured > 0 /\ last.text \in 0..(N - 1)
        /\ Range(Preprocessed(last.keyphrase))
             \cap Range(Preprocessed(collection[last.text + 1])) = {}) =>
        (last.raised = NoError /\ last.score = ZeroScore)

C3_Witness ==
    /\ Called("relevance") /\ configured > 0 /\ last.text \in 0..(N - 1)
    /\ last.keyphrase # <<>>
    /\ Range(Preprocessed(last.keyphrase)) \cap Range(terms) = {}
    /\ collection[last.text + 1] # <<>>
    /\ last.score = ZeroScore
    /\ term_weighting = TF_IDF

\* C4: every score relevance() returns lies in [0,1], under TF and under
\* TF_IDF weighting: the float returned is at least 0.0 and at most 1.0.
C4_ScoreInUnitInterval ==
    Returned => (FLe(FZero, last.score) /\ FLe(last.score, FOne))

\* C5: a relevance() call leaves self.terms, self.tf and self.idf (and
\* which of them exist) as they were, and the same call made again in the
\* state it leaves returns the same outcome.
C5_RelevanceIsPure ==
    [][Called("relevance")' =>
          /\ UNCHANGED <<defined, terms, tf, idf>>
          /\ LET after == [vector_space |-> vector_space',
                           term_weighting |-> term_weighting',
                           defined |-> defined', terms |-> terms',
                           tf |-> tf', idf |-> idf']
                 again == relevance(after, last'.keyphrase, last'.text)
             IN  again.raised = last'.raised /\ again.score = last'.score]_vars

C5_Witness ==
    /\ Returned
    /\ "dog" \in Range(last.keyphrase)
    /\ "dog" \notin Range(terms)
    /\ last.score.sgn = 1

\* C6: relevance() called before any set_text_collection() call has
\* returned always raises; it returns a score only once a
\* set_text_collection() call has returned.
C6_UnconfiguredRelevanceRaises ==
    (Called("relevance") /\ configured = 0) => last.raised # NoError

C6_Witness ==
    /\ Called("relevance") /\ configured = 0
    /\ vector_space # LEMMATA
    /\ last.raised = AttributeError

\* terms, tf and idf are derived from texts only
ReplacedBy(texts) ==
    /\ defined = AllAttrs
    /\ Range(terms) = UNION {Range(Preprocessed(texts[i])) : i \in DOMAIN texts}
    /\ Cardinality(Range(terms)) = Len(terms)
    /\ Len(tf) = Len(texts)
    /\ \A i \in DOMAIN tf : Len(tf[i]) = Len(terms)
    /\ Len(idf) = Len(terms)

\* C7: a set_text_collection() call that returns leaves terms, tf and idf
\* derived from the new collection only (terms: the distinct preprocessed
\* tokens of the new texts; one tf row per new text; rows and idf as long as
\* terms); a call that raises leaves all three as they were.
C7_AllOrNothing ==
    [][Called("set_text_collection")' =>
          IF last'.raised = NoError
          THEN ReplacedBy(last.texts)'
          ELSE UNCHANGED <<defined, terms, tf, idf>>]_vars

C7_Witness ==
    /\ Called("set_text_collection")
    /\ last.raised = TypeError
    /\ last.texts # <<>> /\ flatten(last.texts) # <<>>
    /\ defined = {}

\* C8: the score does not depend on the order of self.terms: whatever order
\* list(set(...)) gives the terms of the configured collection, the last
\* relevance() call returns the same float.
C8_OrderIndependent ==
    (Called("relevance") /\ configured > 0) =>
        \A order \in TermOrders(vector_space, collection) :
            \E other \in {float_set_text_collection(Self, collection, order)} :
                \E again \in {float_relevance([Self EXCEPT !.terms = other.terms,
                                                           !.tf = other.tf,
                                                           !.idf = other.idf],
                                              last.keyphrase, last.text)} :
                    again.raised = last.raised /\ again.score = last.score

C10_IdfAtLeastOne ==
    configured > 0 =>
        /\ Len(idf) = Len(terms)
        /\ \A j \in DOMAIN terms :
              /\ DocFreq(terms[j]) \in 1..N
              /\ idf[j] # Zero
              /\ RLe(One, idf[j])

C10_Witness ==
    /\ configured > 0
    /\ \E j \in DOMAIN idf : idf[j] # One /\ RLe(One, idf[j])
    /\ \E j \in DOMAIN idf : idf[j] = One

====
